---------------------------- MODULE Spec2Model ----------------------------
(***************************************************************************)
(* Model of two pricing sessions of the library:                           *)
(*   - BSMNumericalOption (Sources/Pricers/bsmnumericaloption.cpp): the    *)
(*     lazily evaluated finite-difference session (grid limits, grid,      *)
(*     initial condition, operator boundary conditions, cached results);   *)
(*   - MCForwardVanillaEngine                                              *)
(*     (ql/pricingengines/forward/mcforwardvanillaengine.hpp): constructor *)
(*     validation, time grid, path generator, calculate.                   *)
(*                                                                         *)
(* Numbers.  A double is modelled by an exact rational [n, d] (d > 0, in   *)
(* lowest terms).  The transcendental functions QL_SQRT, QL_EXP and QL_LOG *)
(* are computed in fixed point with FP units per 1.0, rounding down, and   *)
(* their results enter the rational arithmetic as k/FP.                    *)
(***************************************************************************)
EXTENDS Integers, Sequences, FiniteSets

----------------------------------------------------------------------------
(* Bounds of the model *)

\* fixed-point resolution of the transcendental functions: units per 1.0
FP == 1000
\* largest number of grid points of a session (the smallest is 3)
MaxGridPoints == 4
\* accessor calls followed in one finite-difference session
MaxCalls == 3
\* largest value reported by the external PDE solver for a result
MaxResult == 1
\* model times are multiples of 1/TimeDen of a year, up to MaxTime/TimeDen
TimeDen == 4
MaxTime == 6
\* step counts 0..MaxSteps are tried (besides 10 and 12)
MaxSteps == 3
\* calculate() calls followed in one Monte Carlo session
MaxCalc == 3
\* seeds 1..MaxSeed
MaxSeed == 2
\* samples the external driver draws in one run
RequiredSamples == 2

----------------------------------------------------------------------------
(* Rational arithmetic standing for the arithmetic of doubles *)

Abs(i) == IF i < 0 THEN -i ELSE i

RECURSIVE GCD(_, _)
GCD(a, b) == IF b = 0 THEN a ELSE GCD(b, a % b)

\* the rational n/d (d # 0) in lowest terms with a positive denominator
Q(n, d) ==
    LET g == GCD(Abs(n), Abs(d))
        s == IF d < 0 THEN -1 ELSE 1
    IN  [n |-> s * (n \div g), d |-> s * (d \div g)]

QInt(i) == [n |-> i, d |-> 1]

QLess(a, b) == a.n * b.d < b.n * a.d

QLeq(a, b) == a.n * b.d <= b.n * a.d

\* a * b, reducing across before multiplying
QMul(a, b) ==
    LET g1 == GCD(Abs(a.n), b.d)
        g2 == GCD(Abs(b.n), a.d)
    IN  Q((a.n \div g1) * (b.n \div g2), (a.d \div g2) * (b.d \div g1))

\* a / b for b # 0
QDiv(a, b) == QMul(a, Q(b.d, b.n))

\* a - b over the least common denominator
QSub(a, b) ==
    LET g == GCD(a.d, b.d)
        l == (a.d \div g) * b.d
    IN  Q(a.n * (l \div a.d) - b.n * (l \div b.d), l)

QMax(a, b) == IF QLess(a, b) THEN b ELSE a

QFabs(a) == [n |-> Abs(a.n), d |-> a.d]

\* the rational a in fixed point, rounded down
ToFP(a) == (a.n \div a.d) * FP + ((a.n % a.d) * FP) \div a.d

\* a times the fixed-point number e, rounded down to 1/FP
QMulFP(a, e) == Q((a.n \div a.d) * e + ((a.n % a.d) * e) \div a.d, FP)

----------------------------------------------------------------------------
(* QL_SQRT, QL_EXP, QL_LOG in fixed point *)

RECURSIVE SqrtSearch(_, _, _)
SqrtSearch(x, lo, hi) ==
    IF lo >= hi THEN lo
    ELSE LET mid == (lo + hi + 1) \div 2
         IN  IF mid * mid <= x THEN SqrtSearch(x, mid, hi)
             ELSE SqrtSearch(x, lo, mid - 1)

\* sqrt of the fixed-point number x (0 <= x <= 16.0)
QL_SQRT(x) == SqrtSearch(x * FP, 0, 4 * FP)

RECURSIVE ExpSum(_, _, _)
ExpSum(x, term, k) ==
    IF term = 0 THEN 0
    ELSE term + ExpSum(x, (term * x) \div (k * FP), k + 1)

\* exp of the fixed-point number x >= 0: its Taylor series, summed until
\* the terms vanish
QL_EXP(x) == ExpSum(x, FP, 1)

RECURSIVE LogSearch(_, _, _)
LogSearch(x, lo, hi) ==
    IF lo >= hi THEN lo
    ELSE LET mid == (lo + hi + 1) \div 2
         IN  IF QL_EXP(mid) <= x THEN LogSearch(x, mid, hi)
             ELSE LogSearch(x, lo, mid - 1)

\* log of the fixed-point number x in [1.0, exp(7.0)): the largest y with
\* exp(y) <= x
QL_LOG(x) == LogSearch(x, 0, 7 * FP)

----------------------------------------------------------------------------
(* BSMNumericalOption: the inputs a session is constructed from *)

Types == {"Call", "Put", "Straddle", "Other"}

Underlyings == {90, 100, 110, 199}

Strikes == {100, 200}

\* volatilities and residual times, in fixed point
Volatilities == {FP \div 250, FP \div 5}

ResidualTimes == {FP \div 4, FP}

GridPointCounts == 3..MaxGridPoints

ResultValues == 0..MaxResult

\* what the external PDE solver hands back on success
SolverResults ==
    {[value |-> r, delta |-> r + 1, gamma |-> r + 2, theta |-> r + 3] :
        r \in ResultValues}

\* a double that was never assigned
NoValue == [n |-> 0, d |-> 0]

\* a finite-difference operator that was never assembled
NoOperator == [assembled |-> FALSE]

VARIABLES
    type_, underlying_, strike_, residualTime_, volatility_, gridPoints_,
    hasBeenCalculated_, value_, delta_, gamma_, theta_,
    sMin_, sMax_, gridLogSpacing_, grid_, initialPrices_,
    finiteDifferenceOperator_,
    calcCount, failCount, nCalls, lastCall

fdInputs ==
    <<type_, underlying_, strike_, residualTime_, volatility_, gridPoints_>>

fdResults == <<hasBeenCalculated_, value_, delta_, gamma_, theta_>>

fdWork ==
    <<sMin_, sMax_, gridLogSpacing_, grid_, initialPrices_,
      finiteDifferenceOperator_>>

fdHistory == <<calcCount, failCount, nCalls, lastCall>>

fdVars == <<fdInputs, fdResults, fdWork, fdHistory>>

----------------------------------------------------------------------------
(* setGridLimits *)

volSqrtTime(volatility, residualTime) ==
    (volatility * QL_SQRT(residualTime)) \div FP

\* 1.0 + 0.02/volSqrtTime
prefactor(vst) == FP + ((FP \div 50) * FP) \div vst

\* exp(4.0 * prefactor * volSqrtTime), as a rational
minMaxFactor(volatility, residualTime) ==
    LET vst == volSqrtTime(volatility, residualTime)
    IN  Q(QL_EXP((4 * prefactor(vst) * vst) \div FP), FP)

safetyZoneFactor == Q(11, 10)

\* sMin_ = underlying_/minMaxFactor; sMax_ = underlying_*minMaxFactor
initialLimits(underlying, volatility, residualTime) ==
    LET f == minMaxFactor(volatility, residualTime)
    IN  [sMin |-> QDiv(QInt(underlying), f), sMax |-> QMul(QInt(underlying), f)]

\* faulty variant of lowerLimit: the central placement of the underlying is
\* forgotten
lowerLimit_notCentred(lim, underlying, strike) ==
    LET bound == QDiv(QInt(strike), safetyZoneFactor)
    IN  IF QLess(bound, lim.sMin)
        THEN [sMin |-> bound, sMax |-> lim.sMax]
        ELSE lim

\* if (sMin_ > strike_/safetyZoneFactor)
lowerLimit(lim, underlying, strike) ==
    LET bound == QDiv(QInt(strike), safetyZoneFactor)
    IN  IF QLess(bound, lim.sMin)
        THEN [sMin |-> bound,
              sMax |-> QDiv(QInt(underlying), QDiv(bound, QInt(underlying)))]
        ELSE lim

\* if (sMax_ < strike_*safetyZoneFactor)
upperLimit(lim, underlying, strike) ==
    LET bound == QMul(QInt(strike), safetyZoneFactor)
    IN  IF QLess(lim.sMax, bound)
        THEN [sMin |-> QDiv(QInt(underlying), QDiv(bound, QInt(underlying))),
              sMax |-> bound]
        ELSE lim

\* faulty variant of setGridLimits: the second test is left out
setGridLimits_lowerOnly(underlying, strike, volatility, residualTime) ==
    lowerLimit(initialLimits(underlying, volatility, residualTime),
               underlying, strike)

setGridLimits(underlying, strike, volatility, residualTime) ==
    upperLimit(lowerLimit(initialLimits(underlying, volatility, residualTime),
                          underlying, strike),
               underlying, strike)

----------------------------------------------------------------------------
(* initializeGrid *)

\* (QL_LOG(sMax_)-QL_LOG(sMin_))/(gridPoints_-1), in fixed point
gridLogSpacing(sMin, sMax, gridPoints) ==
    (QL_LOG(ToFP(sMax)) - QL_LOG(ToFP(sMin))) \div (gridPoints - 1)

RECURSIVE gridFrom(_, _, _)
gridFrom(g, edx, gridPoints) ==
    IF Len(g) >= gridPoints THEN g
    ELSE gridFrom(Append(g, QMulFP(g[Len(g)], edx)), edx, gridPoints)

\* edx = QL_EXP(gridLogSpacing_); grid_[0] = sMin_; grid_[j] = grid_[j-1]*edx.
\* grid_[j] is element j+1.
gridWithSpacing(sMin, spacing, gridPoints) ==
    [gridLogSpacing |-> spacing,
     grid |-> gridFrom(<<sMin>>, QL_EXP(spacing), gridPoints)]

initializeGrid(sMin, sMax, gridPoints) ==
    gridWithSpacing(sMin, gridLogSpacing(sMin, sMax, gridPoints), gridPoints)

----------------------------------------------------------------------------
(* initializeInitialCondition *)

\* faulty variant of callPayoff: no floor at zero
callPayoff_noFloor(g, strike) == QSub(g, QInt(strike))

\* QL_MAX(grid_[j]-strike_,0.0)
callPayoff(g, strike) == QMax(QSub(g, QInt(strike)), QInt(0))

\* QL_MAX(strike_-grid_[j],0.0)
putPayoff(g, strike) == QMax(QSub(QInt(strike), g), QInt(0))

\* QL_FABS(strike_-grid_[j])
straddlePayoff(g, strike) == QFabs(QSub(QInt(strike), g))

\* switch (type_): [ok, prices]; ok is FALSE when QL_REQUIRE(1 == 0, ...)
\* throws, and the array is then as it was (old).
\* initialPrices_[j] is element j+1 of prices.
initializeInitialCondition(type, grid, strike, gridPoints, old) ==
    CASE type = "Call" ->
           [ok |-> TRUE,
            prices |-> [j \in 1..gridPoints |-> callPayoff(grid[j], strike)]]
      [] type = "Put" ->
           [ok |-> TRUE,
            prices |-> [j \in 1..gridPoints |-> putPayoff(grid[j], strike)]]
      [] type = "Straddle" ->
           [ok |-> TRUE,
            prices |-> [j \in 1..gridPoints |-> straddlePayoff(grid[j], strike)]]
      [] OTHER -> [ok |-> FALSE, prices |-> old]

----------------------------------------------------------------------------
(* initializeOperator *)

BoundaryCondition(type, value) == [type |-> type, value |-> value]

\* faulty variant of initializeOperator: the higher slope is taken from the
\* wrong pair of entries
initializeOperator_shifted(prices, gridPoints, dx) ==
    [assembled |-> TRUE, size |-> gridPoints, dx |-> dx,
     lowerBC  |-> BoundaryCondition("Neumann", QSub(prices[2], prices[1])),
     higherBC |-> BoundaryCondition("Neumann",
                     QSub(prices[gridPoints - 1], prices[gridPoints - 2]))]

\* BSMOperator(gridPoints_, gridLogSpacing_, ...), setLowerBC, setHigherBC.
\* initialPrices_[j] is element j+1 of prices.
initializeOperator(prices, gridPoints, dx) ==
    [assembled |-> TRUE, size |-> gridPoints, dx |-> dx,
     lowerBC  |-> BoundaryCondition("Neumann", QSub(prices[2], prices[1])),
     higherBC |-> BoundaryCondition("Neumann",
                     QSub(prices[gridPoints], prices[gridPoints - 1]))]

----------------------------------------------------------------------------
(* The session: construction, calculate, the four accessors *)

Unset == <<>>

NoCall ==
    [op |-> "none", calculated |-> FALSE, kind |-> "none", error |-> "none",
     ret |-> Unset]

\* BSMNumericalOption::BSMNumericalOption: hasBeenCalculated_ = false, the
\* arrays sized gridPoints_, nothing else assigned
FDInit ==
    /\ type_ \in Types
    /\ underlying_ \in Underlyings
    /\ strike_ \in Strikes
    /\ residualTime_ \in ResidualTimes
    /\ volatility_ \in Volatilities
    /\ gridPoints_ \in GridPointCounts
    /\ hasBeenCalculated_ = FALSE
    /\ value_ = Unset /\ delta_ = Unset /\ gamma_ = Unset /\ theta_ = Unset
    /\ sMin_ = NoValue /\ sMax_ = NoValue /\ gridLogSpacing_ = 0
    /\ grid_ = [j \in 1..gridPoints_ |-> NoValue]
    /\ initialPrices_ = [j \in 1..gridPoints_ |-> NoValue]
    /\ finiteDifferenceOperator_ = NoOperator
    /\ calcCount = 0 /\ failCount = 0 /\ nCalls = 0
    /\ lastCall = NoCall

\* faulty variant of mustCalculate: recomputes on every call
mustCalculate_always == TRUE

\* if (!hasBeenCalculated_)
mustCalculate == ~hasBeenCalculated_

\* faulty variant of accessorResult: the member is returned although
\* calculate() threw
accessorResult_swallowed(op, ok, error, member) ==
    [op |-> op, calculated |-> TRUE, kind |-> "return", error |-> "none",
     ret |-> member]

\* calculate(); return member;  an exception of calculate() leaves the
\* accessor before the return
accessorResult(op, ok, error, member) ==
    IF ok
    THEN [op |-> op, calculated |-> TRUE, kind |-> "return", error |-> "none",
          ret |-> member]
    ELSE [op |-> op, calculated |-> TRUE, kind |-> "error", error |-> error,
          ret |-> Unset]

\* calculate() of the concrete option: grid limits, grid, initial
\* condition, operator, the external solver, and then all four results and
\* the flag together.  solverOk and res are what the external solver does.
calculate(op) ==
    \E lim \in {setGridLimits(underlying_, strike_, volatility_,
                              residualTime_)} :
    \E g \in {initializeGrid(lim.sMin, lim.sMax, gridPoints_)} :
    \E ic \in {initializeInitialCondition(type_, g.grid, strike_, gridPoints_,
                                          initialPrices_)} :
    \E solverOk \in BOOLEAN, res \in SolverResults :
        LET done == ic.ok /\ solverOk
            error == IF ic.ok THEN "UpstreamFailure" ELSE "InvalidArgument"
        IN  /\ sMin_' = lim.sMin
            /\ sMax_' = lim.sMax
            /\ gridLogSpacing_' = g.gridLogSpacing
            /\ grid_' = g.grid
            /\ initialPrices_' = ic.prices
            /\ finiteDifferenceOperator_' =
                  IF ic.ok
                  THEN initializeOperator(ic.prices, gridPoints_,
                                          g.gridLogSpacing)
                  ELSE finiteDifferenceOperator_
            /\ hasBeenCalculated_' = (hasBeenCalculated_ \/ done)
            /\ value_' = IF done THEN <<res.value>> ELSE value_
            /\ delta_' = IF done THEN <<res.delta>> ELSE delta_
            /\ gamma_' = IF done THEN <<res.gamma>> ELSE gamma_
            /\ theta_' = IF done THEN <<res.theta>> ELSE theta_
            /\ calcCount' = calcCount + 1
            /\ failCount' = IF done THEN failCount ELSE failCount + 1
            /\ lastCall' = accessorResult(op, done, error,
                              CASE op = "value" -> value_'
                                [] op = "delta" -> delta_'
                                [] op = "gamma" -> gamma_'
                                [] op = "theta" -> theta_')

\* an accessor that finds the results computed
cached(op, member) ==
    /\ UNCHANGED <<fdResults, fdWork, calcCount, failCount>>
    /\ lastCall' = [op |-> op, calculated |-> FALSE, kind |-> "return",
                    error |-> "none", ret |-> member]

accessor(op, member) ==
    /\ nCalls < MaxCalls
    /\ nCalls' = nCalls + 1
    /\ UNCHANGED fdInputs
    /\ IF mustCalculate
       THEN calculate(op)
       ELSE cached(op, member)

value == accessor("value", value_)

delta == accessor("delta", delta_)

gamma == accessor("gamma", gamma_)

theta == accessor("theta", theta_)

----------------------------------------------------------------------------
(* MCForwardVanillaEngine *)

\* Null<Size>()
NullSize == 2147483647

StepCounts == (0..MaxSteps) \cup {10, 12, NullSize}

Times == 1..MaxTime

Seeds == 1..MaxSeed

\* an engine whose McSimulation has no model yet
NoModel == [built |-> FALSE, samples |-> <<>>]

VARIABLES
    engine, ctorError, timeSteps_, timeStepsPerYear_, seed_,
    factors, allowsErrorEstimate, t1, t2,
    results_, mcModel_, gridArgs, lastGrid, nCalc, okRuns, lastOutcome

mcConfig == <<engine, ctorError, timeSteps_, timeStepsPerYear_, seed_>>

mcArguments == <<factors, allowsErrorEstimate, t1, t2>>

mcWork ==
    <<results_, mcModel_, gridArgs, lastGrid, nCalc, okRuns, lastOutcome>>

mcVars == <<mcConfig, mcArguments, mcWork>>

vars == <<fdVars, mcVars>>

\* faulty variant of constructorChecks: timeSteps is not tested against 0
constructorChecks_noZeroTest(timeSteps, timeStepsPerYear) ==
    IF ~(timeSteps # NullSize \/ timeStepsPerYear # NullSize)
    THEN "no time steps provided"
    ELSE IF ~(timeSteps = NullSize \/ timeStepsPerYear = NullSize)
    THEN "both time steps and time steps per year were provided"
    ELSE IF ~(timeStepsPerYear # 0)
    THEN "timeStepsPerYear must be positive"
    ELSE "none"

\* the four QL_REQUIREs of the constructor, in order: the message of the
\* first that fails, "none" when all pass
constructorChecks(timeSteps, timeStepsPerYear) ==
    IF ~(timeSteps # NullSize \/ timeStepsPerYear # NullSize)
    THEN "no time steps provided"
    ELSE IF ~(timeSteps = NullSize \/ timeStepsPerYear = NullSize)
    THEN "both time steps and time steps per year were provided"
    ELSE IF ~(timeSteps # 0)
    THEN "timeSteps must be positive"
    ELSE IF ~(timeStepsPerYear # 0)
    THEN "timeStepsPerYear must be positive"
    ELSE "none"

\* the session before the engine is constructed: the process and the
\* instrument's arguments (reset time t1, exercise time t2) are given
MCInit ==
    /\ engine = "none" /\ ctorError = "none"
    /\ timeSteps_ = NullSize /\ timeStepsPerYear_ = NullSize /\ seed_ = 0
    /\ factors \in 1..2
    /\ allowsErrorEstimate \in BOOLEAN
    /\ t1 \in Times /\ t2 \in Times /\ t1 < t2
    /\ results_ = [value |-> Unset, errorEstimate |-> Unset]
    /\ mcModel_ = NoModel
    /\ gridArgs = Unset /\ lastGrid = Unset
    /\ nCalc = 0 /\ okRuns = 0 /\ lastOutcome = "none"

\* MCForwardVanillaEngine::MCForwardVanillaEngine
MCForwardVanillaEngine ==
    /\ engine = "none"
    /\ \E timeSteps \in StepCounts, timeStepsPerYear \in StepCounts,
          seed \in Seeds :
          /\ timeSteps_' = timeSteps
          /\ timeStepsPerYear_' = timeStepsPerYear
          /\ seed_' = seed
          /\ ctorError' = constructorChecks(timeSteps, timeStepsPerYear)
          /\ engine' = IF ctorError' = "none" THEN "ok" ELSE "error"
    /\ UNCHANGED <<mcArguments, mcWork>>

----------------------------------------------------------------------------
(* timeGrid, pathGenerator, calculate *)

\* Size totalSteps: timeSteps_, else static_cast<Size>(timeStepsPerYear_*t2)
totalSteps ==
    IF timeSteps_ # NullSize THEN timeSteps_
    ELSE IF timeStepsPerYear_ # NullSize
    THEN (timeStepsPerYear_ * t2) \div TimeDen
    ELSE NullSize

\* fixingTimes: t1 and t2 pushed back in this order
fixingTimes == <<Q(t1, TimeDen), Q(t2, TimeDen)>>

\* TimeGrid(begin, end, steps): the mandatory times, with the span between
\* them cut into `steps` equal sub-intervals; with no step to cut into, the
\* mandatory times alone
TimeGrid(times, steps) ==
    IF steps = 0 THEN times
    ELSE [k \in 1..(steps + 1) |->
            Q(times[1].n * times[2].d * (steps - (k - 1))
                + times[2].n * times[1].d * (k - 1),
              times[1].d * times[2].d * steps)]

timeGrid == TimeGrid(fixingTimes, totalSteps)

\* RNG::make_sequence_generator(dimension, seed)
make_sequence_generator(dimension, seed) ==
    [dimension |-> dimension, state |-> seed]

\* faulty variant of pathGenerator: the generator is carried on from run
\* to run
pathGenerator_carried ==
    [grid |-> timeGrid,
     gen |-> make_sequence_generator(factors * (Len(timeGrid) - 1),
                                     seed_ + nCalc)]

\* dimensions*(grid.size()-1) random numbers per path, seeded with seed_
pathGenerator ==
    [grid |-> timeGrid,
     gen |-> make_sequence_generator(factors * (Len(timeGrid) - 1), seed_)]

\* the external generator: a linear congruential step
nextState(s) == (5 * s + 3) % 16

RECURSIVE drawSum(_, _)
drawSum(s, n) == IF n = 0 THEN 0 ELSE nextState(s) + drawSum(nextState(s), n - 1)

RECURSIVE advance(_, _)
advance(s, n) == IF n = 0 THEN s ELSE advance(nextState(s), n - 1)

\* the external driver: `count` path prices from the generator, each from
\* one sequence of gen.dimension numbers
RECURSIVE sample(_, _)
sample(gen, count) ==
    IF count = 0 THEN <<>>
    ELSE <<drawSum(gen.state, gen.dimension) % 8>>
         \o sample([gen EXCEPT !.state = advance(gen.state, gen.dimension)],
                   count - 1)

RECURSIVE Sum(_)
Sum(q) == IF q = <<>> THEN 0 ELSE Head(q) + Sum(Tail(q))

mean(samples) == Sum(samples) \div Len(samples)

RECURSIVE Largest(_)
Largest(q) ==
    IF Len(q) = 1 THEN Head(q)
    ELSE IF Head(q) > Largest(Tail(q)) THEN Head(q) ELSE Largest(Tail(q))

errorEstimate(samples) == Largest(samples) - mean(samples)

\* MCForwardVanillaEngine::calculate: McSimulation::calculate builds the
\* model from pathGenerator() and lets the driver sample (which may fail);
\* then results_.value and, if the generator allows it, the error estimate
MCForwardVanillaEngine_calculate ==
    /\ engine = "ok"
    /\ nCalc < MaxCalc
    /\ nCalc' = nCalc + 1
    /\ gridArgs' = <<[times |-> fixingTimes, steps |-> totalSteps]>>
    /\ \E pg \in {pathGenerator} : \E driverOk \in BOOLEAN :
          /\ lastGrid' = <<pg.grid>>
          /\ mcModel_' =
                [built |-> TRUE,
                 samples |-> IF driverOk THEN sample(pg.gen, RequiredSamples)
                             ELSE <<>>]
          /\ lastOutcome' = IF driverOk THEN "ok" ELSE "error"
          /\ okRuns' = IF driverOk THEN okRuns + 1 ELSE okRuns
          /\ results_' =
                IF driverOk
                THEN [value |-> <<mean(mcModel_'.samples)>>,
                      errorEstimate |->
                         IF allowsErrorEstimate
                         THEN <<errorEstimate(mcModel_'.samples)>>
                         ELSE results_.errorEstimate]
                ELSE results_
    /\ UNCHANGED <<mcConfig, mcArguments>>

----------------------------------------------------------------------------
(* The two specifications: one session of each kind *)

\* the finite-difference session at rest
FDIdle ==
    /\ type_ = "Call" /\ underlying_ = 100 /\ strike_ = 100
    /\ residualTime_ = FP /\ volatility_ = FP \div 5 /\ gridPoints_ = 3
    /\ hasBeenCalculated_ = FALSE
    /\ value_ = Unset /\ delta_ = Unset /\ gamma_ = Unset /\ theta_ = Unset
    /\ sMin_ = NoValue /\ sMax_ = NoValue /\ gridLogSpacing_ = 0
    /\ grid_ = [j \in 1..gridPoints_ |-> NoValue]
    /\ initialPrices_ = [j \in 1..gridPoints_ |-> NoValue]
    /\ finiteDifferenceOperator_ = NoOperator
    /\ calcCount = 0 /\ failCount = 0 /\ nCalls = 0
    /\ lastCall = NoCall

\* the Monte Carlo session at rest
MCIdle ==
    /\ engine = "none" /\ ctorError = "none"
    /\ timeSteps_ = NullSize /\ timeStepsPerYear_ = NullSize /\ seed_ = 0
    /\ factors = 1 /\ allowsErrorEstimate = TRUE
    /\ t1 = 1 /\ t2 = 2
    /\ results_ = [value |-> Unset, errorEstimate |-> Unset]
    /\ mcModel_ = NoModel
    /\ gridArgs = Unset /\ lastGrid = Unset
    /\ nCalc = 0 /\ okRuns = 0 /\ lastOutcome = "none"

InitFD == FDInit /\ MCIdle

NextFD ==
    \/ value /\ UNCHANGED mcVars
    \/ delta /\ UNCHANGED mcVars
    \/ gamma /\ UNCHANGED mcVars
    \/ theta /\ UNCHANGED mcVars

SpecFD == InitFD /\ [][NextFD]_vars

InitMC == MCInit /\ FDIdle

NextMC ==
    \/ MCForwardVanillaEngine /\ UNCHANGED fdVars
    \/ MCForwardVanillaEngine_calculate /\ UNCHANGED fdVars

SpecMC == InitMC /\ [][NextMC]_vars

----------------------------------------------------------------------------
(* Claims about the finite-difference session (SpecFD) *)

\* the member an accessor returns
Member(op) ==
    CASE op = "value" -> value_
      [] op = "delta" -> delta_
      [] op = "gamma" -> gamma_
      [] op = "theta" -> theta_
      [] OTHER -> Unset

C2_FailureLeavesUncomputed ==
    [][/\ failCount' > failCount =>
            /\ lastCall'.kind = "error"
            /\ lastCall'.error \in {"InvalidArgument", "UpstreamFailure"}
            /\ lastCall'.ret = Unset
            /\ ~hasBeenCalculated_'
            /\ value_' = Unset /\ delta_' = Unset
            /\ gamma_' = Unset /\ theta_' = Unset
       /\ (~hasBeenCalculated_ /\ nCalls' > nCalls) =>
            calcCount' = calcCount + 1]_vars

C2_Witness ==
    /\ failCount = 1 /\ calcCount = 2 /\ hasBeenCalculated_
    /\ lastCall.calculated /\ lastCall.kind = "return"

\* C4: after setGridLimits the strike lies inside the interval with the
\* 1.1 margin on both sides: sMin <= K/1.1 and sMax >= K*1.1.
C4_StrikeInsideWithMargin ==
    sMin_ # NoValue =>
        /\ 11 * sMin_.n <= 10 * strike_ * sMin_.d
        /\ 10 * sMax_.n >= 11 * strike_ * sMax_.d

\* both re-centering branches ran, one after the other
C4_Witness ==
    /\ sMin_ # NoValue
    /\ underlying_ = 199 /\ strike_ = 200
    /\ QLess(minMaxFactor(volatility_, residualTime_), safetyZoneFactor)
    /\ sMax_ = Q(11 * strike_, 10)
    /\ sMin_ # Q(10 * strike_, 11)

\* C5: after setGridLimits the spot is the geometric centre of a
\* non-degenerate interval: sMin*sMax = S^2 and sMin < S < sMax.
C5_SpotCentred ==
    sMin_ # NoValue =>
        /\ QMul(sMin_, sMax_) = QInt(underlying_ * underlying_)
        /\ sMin_.n < underlying_ * sMin_.d
        /\ underlying_ * sMax_.d < sMax_.n

\* the lower re-centering branch ran
C5_Witness ==
    /\ underlying_ = 110 /\ strike_ = 100
    /\ sMin_ = Q(10 * strike_, 11)
    /\ sMax_ = Q(11 * underlying_ * underlying_, 10 * strike_)

\* C7: initializeInitialCondition fills every entry of the payoff vector:
\* Call max(grid[j]-strike,0), Put max(strike-grid[j],0), Straddle
\* |strike-grid[j]|; any other type raises the error, nothing is computed
\* and no operator is assembled.
C7_PayoffFilled ==
    calcCount >= 1 =>
        IF type_ \in {"Call", "Put", "Straddle"}
        THEN /\ DOMAIN initialPrices_ = 1..gridPoints_
             /\ \A j \in 1..gridPoints_ :
                  LET p == initialPrices_[j]
                      up == QSub(grid_[j], QInt(strike_))
                      down == QSub(QInt(strike_), grid_[j])
                  IN  /\ p.d > 0
                      /\ p.n >= 0
                      /\ type_ = "Call" =>
                            (p = up \/ (p.n = 0 /\ up.n <= 0))
                      /\ type_ = "Put" =>
                            (p = down \/ (p.n = 0 /\ down.n <= 0))
                      /\ type_ = "Straddle" => (p = up \/ p = down)
        ELSE /\ lastCall.kind = "error"
             /\ lastCall.error = "InvalidArgument"
             /\ ~hasBeenCalculated_
             /\ finiteDifferenceOperator_ = NoOperator
             /\ \A j \in 1..gridPoints_ : initialPrices_[j] = NoValue

\* a call payoff with entries on both sides of the strike
C7_Witness ==
    /\ calcCount >= 1 /\ type_ = "Call"
    /\ initialPrices_[1].d > 0 /\ initialPrices_[1].n = 0
    /\ QLess(grid_[1], QInt(strike_))
    /\ initialPrices_[gridPoints_].n > 0

\* C8: after initializeOperator both boundary conditions are Neumann, the
\* lower with value payoff[1]-payoff[0], the higher with value
\* payoff[N-1]-payoff[N-2], for the payoff vector of the same session.
C8_NeumannBoundaries ==
    finiteDifferenceOperator_.assembled =>
        LET op == finiteDifferenceOperator_
            n == gridPoints_
        IN  /\ op.lowerBC.type = "Neumann"
            /\ op.higherBC.type = "Neumann"
            /\ op.lowerBC.value = QSub(initialPrices_[2], initialPrices_[1])
            /\ op.higherBC.value =
                  QSub(initialPrices_[n], initialPrices_[n - 1])

\* a straddle: the payoff falls at the low edge and rises at the high edge
C8_Witness ==
    /\ finiteDifferenceOperator_.assembled
    /\ type_ = "Straddle"
    /\ finiteDifferenceOperator_.lowerBC.value.n < 0
    /\ finiteDifferenceOperator_.higherBC.value.n > 0

----------------------------------------------------------------------------
(* Claims about the Monte Carlo engine (SpecMC) *)

Supplied(steps) == steps # NullSize

\* C3: construction succeeds exactly when one of timeSteps and
\* timeStepsPerYear is supplied and the supplied value is positive;
\* otherwise it fails, before any time grid or path generator is built.
C3_ConstructionValidated ==
    engine # "none" =>
        /\ engine = "ok" <=>
              /\ Supplied(timeSteps_) # Supplied(timeStepsPerYear_)
              /\ Supplied(timeSteps_) => timeSteps_ > 0
              /\ Supplied(timeStepsPerYear_) => timeStepsPerYear_ > 0
        /\ engine = "error" =>
              /\ ctorError # "none"
              /\ gridArgs = Unset /\ lastGrid = Unset
              /\ ~mcModel_.built

C3_Witness ==
    /\ engine = "error"
    /\ timeSteps_ = 0 /\ timeStepsPerYear_ = NullSize
    /\ ctorError = "timeSteps must be positive"

\* C6: timeGrid() builds the grid from exactly the fixing times {t1, t2}
\* with total steps timeSteps when supplied and floor(timeStepsPerYear*t2)
\* otherwise; the grid holds t1 and t2 as grid points and has the requested
\* number of sub-intervals.
C6_GridAsRequested ==
    lastGrid # Unset =>
        LET g == lastGrid[1]
            n == gridArgs[1].steps
        IN  /\ gridArgs[1].times = <<Q(t1, TimeDen), Q(t2, TimeDen)>>
            /\ Supplied(timeSteps_) => n = timeSteps_
            /\ ~Supplied(timeSteps_) =>
                  /\ n * TimeDen <= timeStepsPerYear_ * t2
                  /\ timeStepsPerYear_ * t2 < (n + 1) * TimeDen
            /\ \E i \in DOMAIN g : g[i] = Q(t1, TimeDen)
            /\ \E i \in DOMAIN g : g[i] = Q(t2, TimeDen)
            /\ Len(g) - 1 = n

C10_StepCountPositive ==
    gridArgs # Unset => gridArgs[1].steps >= 1

============================================================================
